---- MODULE Spec2Model ----
(***************************************************************************)
(* A model of the batch-prompting pipeline: prompt-template expansion      *)
(* (src/src/prompts.py), the completion client (src/src/client.py), the    *)
(* response collector (src/src/collector.py), the retrying runner          *)
(* (src/src/runner.py) and the command-line main flow (src/scripts/run.py).*)
(***************************************************************************)
EXTENDS Integers, Sequences, FiniteSets, TLC

VARIABLES
    \* --- PromptTemplate.expand called on one template ---
    et,          \* the template expand() is called on
    eres,        \* what the call produced: not called, a list, or KeyError
    \* --- load_prompts ---
    text,        \* the file's content, a sequence of items
    pos,         \* load_prompts' cursor into text
    templates,   \* the templates list built so far
    lres,        \* how load_prompts ended
    \* --- ResponseCollector used through a with statement ---
    fh,          \* self._fh: "None" or "open"
    file,        \* the records appended to output_path and flushed
    dirMade,     \* output_path.parent exists (mkdir in __init__)
    scope,       \* position of the with statement around the collector
    bodyExc,     \* exception raised by the with body, "None" if none
    propagated,  \* exception that left the with statement
    saveRes,     \* outcome of the latest save call
    \* --- main flow and Runner ---
    pc,          \* position of scripts/run.py main
    prompts,     \* templates returned by load_prompts
    models,      \* args.models
    answer,      \* the line typed at the confirmation prompt
    exitStatus,  \* sys.exit status, -1 while running
    clientMade,  \* TogetherClient() has been constructed
    combos,      \* Runner.run's combos list
    idx,         \* index of the combo the for loop is at (1-based)
    lastCall,    \* the latest client.complete call: its combo, attempt
                 \* number, keyword arguments and outcome
    errors,      \* every logger.error line, in order
    outcomes,    \* per processed combo: did _call return or raise
    \* --- visualizer render ---
    vrecords,    \* render's records argument
    voutput,     \* render's output argument: a path, or none
    vpc,         \* position of render
    vk,          \* index into lp_records of the for loop (1-based)
    images,      \* every fig.savefig so far: record position and path
    shown        \* number of plt.show calls so far

vars == << et, eres, text, pos, templates, lres, fh, file, dirMade, scope,
           bodyExc, propagated, saveRes, pc, prompts, models, answer,
           exitStatus, clientMade, combos, idx, lastCall, errors,
           outcomes, vrecords, voutput, vpc, vk, images, shown >>

expandVars == << et, eres >>
loadVars == << text, pos, templates, lres >>
collectorVars == << fh, file, dirMade, scope, bodyExc, propagated, saveRes >>
mainVars == << pc, prompts, models, answer, exitStatus, clientMade, combos,
               idx, lastCall, errors, outcomes >>
renderVars == << vrecords, voutput, vpc, vk, images, shown >>

-----------------------------------------------------------------------------
(* Bounds of the model *)

MaxVars == 2       \* variables declared by one template
MaxListLen == 2    \* elements of one list-valued variable

-----------------------------------------------------------------------------
(* Generic helpers *)

Range(s) == { s[i] : i \in 1..Len(s) }

SeqsUpTo(S, n) == UNION { [1..k -> S] : k \in 0..n }

RECURSIVE Flatten(_)
Flatten(ss) == IF ss = << >> THEN << >> ELSE Head(ss) \o Flatten(Tail(ss))

-----------------------------------------------------------------------------
(* PromptTemplate and expand()                                              *)
(* A template's variables dict is the sequence of its entries in declared  *)
(* order; an entry is [name, list, vals]: list says whether the value is a *)
(* list, vals holds the elements (one element for a scalar). system and    *)
(* user are the sequences of placeholder names the two strings refer to.   *)

Names == { "a", "b", "c" }
Vals == { "v1", "v2" }

VarEntries ==
    { [name |-> n, list |-> FALSE, vals |-> << v >>] : n \in Names, v \in Vals }
    \cup
    { [name |-> n, list |-> TRUE, vals |-> vs] :
        n \in Names, vs \in SeqsUpTo(Vals, MaxListLen) }

VariableDicts ==
    { d \in SeqsUpTo(VarEntries, MaxVars) :
        \A i, j \in 1..Len(d) : i # j => d[i].name # d[j].name }

\* dict comprehensions of expand(): the list-valued and the scalar entries
ListVars(variables) == SelectSeq(variables, LAMBDA e : e.list)
ScalarVars(variables) == SelectSeq(variables, LAMBDA e : ~e.list)

\* scalar_vars as a context dict: placeholder name -> value
ScalarCtx(variables) ==
    LET sv == ScalarVars(variables)
    IN  [n \in { sv[i].name : i \in 1..Len(sv) } |->
            sv[CHOOSE i \in 1..Len(sv) : sv[i].name = n].vals[1]]

\* {**left, **right}
Merge(left, right) ==
    [n \in DOMAIN left \cup DOMAIN right |->
        IF n \in DOMAIN right THEN right[n] ELSE left[n]]

\* dict(zip(keys, combo))
ZipDict(keys, combo) ==
    [n \in { keys[i] : i \in 1..Len(keys) } |->
        combo[CHOOSE i \in 1..Len(keys) : keys[i] = n]]

\* itertools.product(*lists): first list slowest, last list fastest
RECURSIVE ProductFirstFastest(_)
ProductFirstFastest(lists) ==
    IF lists = << >> THEN << << >> >>
    ELSE LET rest == ProductFirstFastest(Tail(lists))
             hd == Head(lists)
         IN  Flatten([j \in 1..Len(rest) |->
                        [i \in 1..Len(hd) |-> << hd[i] >> \o rest[j]]])

RECURSIVE Product(_)
Product(lists) ==
    IF lists = << >> THEN << << >> >>
    ELSE LET rest == Product(Tail(lists))
             hd == Head(lists)
         IN  Flatten([i \in 1..Len(hd) |->
                        [j \in 1..Len(rest) |-> << hd[i] >> \o rest[j]]])

\* str.format_map(ctx): the substituted values, or KeyError when a
\* placeholder has no entry in ctx
CanFormat(placeholders, ctx) == \A i \in 1..Len(placeholders) : placeholders[i] \in DOMAIN ctx
FormatMap(placeholders, ctx) == [i \in 1..Len(placeholders) |-> ctx[placeholders[i]]]

\* the contexts expand() builds, in order
ContextsNoScalars(variables) ==
    LET lv == ListVars(variables)
        keys == [i \in 1..Len(lv) |-> lv[i].name]
        combos_ == Product([i \in 1..Len(lv) |-> lv[i].vals])
    IN  IF lv = << >> THEN << ScalarCtx(variables) >>
        ELSE [c \in 1..Len(combos_) |-> ZipDict(keys, combos_[c])]

Contexts(variables) ==
    LET lv == ListVars(variables)
        keys == [i \in 1..Len(lv) |-> lv[i].name]
        combos_ == Product([i \in 1..Len(lv) |-> lv[i].vals])
    IN  IF lv = << >> THEN << ScalarCtx(variables) >>
        ELSE [c \in 1..Len(combos_) |->
                Merge(ScalarCtx(variables), ZipDict(keys, combos_[c]))]

\* PromptTemplate.expand(): the list of (ctx, system, user) tuples, or the
\* KeyError of the first rendering that fails
expand(t) ==
    LET ctxs == Contexts(t.variables)
    IN  IF \A c \in 1..Len(ctxs) :
               CanFormat(t.system, ctxs[c]) /\ CanFormat(t.user, ctxs[c])
        THEN [status |-> "ok",
              variants |-> [c \in 1..Len(ctxs) |->
                  [ctx |-> ctxs[c],
                   system |-> FormatMap(t.system, ctxs[c]),
                   user |-> FormatMap(t.user, ctxs[c])]]]
        ELSE [status |-> "KeyError", variants |-> << >>]

TemplateTexts ==
    { [system |-> << >>, user |-> << >>],
      [system |-> << "a" >>, user |-> << "b" >>],
      [system |-> << >>, user |-> << "a", "b", "a" >>] }

Templates ==
    { [id |-> "p1", system |-> x.system, user |-> x.user, variables |-> d,
       logprobs |-> "None"] : x \in TemplateTexts, d \in VariableDicts }

NotCalled == [status |-> "not_called", variants |-> << >>]

ExpandCall ==
    /\ eres = NotCalled
    /\ eres' = expand(et)
    /\ UNCHANGED << et, loadVars, collectorVars, mainVars, renderVars >>

-----------------------------------------------------------------------------
(* load_prompts                                                             *)
(* The file is a sequence of items: a whitespace character, a JSON object  *)
(* (with the fields it holds), or text that is not JSON. pos counts items  *)
(* (0-based, as in the code).                                              *)

MaxItems == 4      \* items in a prompt file

Required == { "id", "system", "user" }

JsonObjects ==
    { [kind |-> "object", fields |-> Required \cup opt, id |-> i] :
        opt \in SUBSET { "variables" }, i \in { "p1", "p2" } }
    \cup
    { [kind |-> "object", fields |-> Required \ { f }, id |-> "p1"] : f \in Required }

Items ==
    { [kind |-> "ws", fields |-> { }, id |-> "None"],
      [kind |-> "garbage", fields |-> { }, id |-> "None"] }
    \cup JsonObjects

Texts == SeqsUpTo(Items, MaxItems)

\* text[pos] in " \t\n\r"
IsWs(item) == item.kind = "ws"

\* the inner while loop: first position >= p that holds no whitespace
RECURSIVE SkipWs(_, _)
SkipWs(txt, p) ==
    IF p < Len(txt) /\ IsWs(txt[p + 1]) THEN SkipWs(txt, p + 1) ELSE p

\* decoder.raw_decode(text, pos): does it raise JSONDecodeError
DecodeFails(item) == item.kind = "garbage"

\* PromptTemplate(id=obj["id"], ...) of one decoded value
\* obj.get("variables", {}) and obj.get("logprobs")
TemplateOf(item) ==
    [id |-> item.id,
     variables |-> IF "variables" \in item.fields THEN "given" ELSE << >>,
     logprobs |-> IF "logprobs" \in item.fields THEN "given" ELSE "None"]

\* the exception obj["id"] / obj["system"] / obj["user"] raises, if any
SubscriptError(item) ==
    IF ~(Required \subseteq item.fields) THEN "KeyError" ELSE "None"

Running == [status |-> "running", error |-> "None", names_path |-> FALSE, position |-> { }]

\* one pass of the outer while loop that does not leave it by break
LoadRecord ==
    /\ lres.status = "running"
    /\ pos < Len(text)
    /\ LET p == SkipWs(text, pos)
       IN  /\ p < Len(text)
           /\ IF DecodeFails(text[p + 1])
              THEN /\ lres' = [status |-> "raised", error |-> "ValueError",
                               names_path |-> TRUE, position |-> { p }]
                   /\ UNCHANGED << pos, templates >>
              ELSE IF SubscriptError(text[p + 1]) # "None"
              THEN /\ lres' = [status |-> "raised", error |-> SubscriptError(text[p + 1]),
                               names_path |-> FALSE, position |-> { }]
                   /\ UNCHANGED << pos, templates >>
              ELSE /\ templates' = Append(templates, TemplateOf(text[p + 1]))
                   /\ pos' = p + 1
                   /\ UNCHANGED lres
    /\ UNCHANGED << text, expandVars, collectorVars, mainVars, renderVars >>

\* the loop ends (its condition fails, or the break after whitespace)
LoadReturn ==
    /\ lres.status = "running"
    /\ SkipWs(text, pos) >= Len(text)
    /\ lres' = [status |-> "returned", error |-> "None", names_path |-> FALSE, position |-> { }]
    /\ pos' = SkipWs(text, pos)
    /\ UNCHANGED << text, templates, expandVars, collectorVars, mainVars, renderVars >>

-----------------------------------------------------------------------------
(* ResponseCollector                                                        *)

MaxSaves == 4      \* save calls made by the collector's caller

\* __exit__: close the handle if there is one and forget it
ExitFhLeak(h) == h

ExitFh(h) == IF h # "None" THEN "None" ELSE h

\* __exit__ returns None, so the with statement re-raises the body's exception
ExitSuppresses == FALSE

\* save: the RuntimeError guard
SaveRaises(h) == h = "None"

\* save: write + flush appends one record to the file
SaveFileTruncating(h, f, record) == IF h = "None" THEN f ELSE << record >>

SaveFile(h, f, record) == IF h = "None" THEN f ELSE Append(f, record)

NoSave == [at |-> "never", raised |-> FALSE, grew |-> 0]

SaveOutcome(h, f, record) ==
    [at |-> scope, raised |-> SaveRaises(h),
     grew |-> Len(SaveFile(h, f, record)) - Len(f)]

CRecords == { "r1", "r2" }

\* with collector: (entering the with statement on a constructed collector)
WithEnter ==
    /\ pc = "collector_user"
    /\ scope \in { "before", "after" }
    /\ scope' = "inside"
    /\ fh' = "open"
    /\ bodyExc' = "None"
    /\ propagated' = "None"
    /\ UNCHANGED << file, dirMade, saveRes, expandVars, loadVars, mainVars, renderVars >>

\* collector.save(r), called from anywhere
CallSave ==
    /\ pc = "collector_user"
    /\ bodyExc = "None"
    /\ Len(file) < MaxSaves
    /\ \E r \in CRecords :
        /\ saveRes' = SaveOutcome(fh, file, r)
        /\ file' = SaveFile(fh, file, r)
    /\ UNCHANGED << fh, dirMade, scope, bodyExc, propagated, expandVars, loadVars, mainVars, renderVars >>

\* the with body raises
BodyRaise ==
    /\ pc = "collector_user"
    /\ scope = "inside"
    /\ bodyExc = "None"
    /\ bodyExc' = "Exception"
    /\ UNCHANGED << fh, file, dirMade, scope, propagated, saveRes, expandVars, loadVars, mainVars, renderVars >>

\* leaving the with statement, normally or by the body's exception
WithExit ==
    /\ pc = "collector_user"
    /\ scope = "inside"
    /\ fh' = ExitFh(fh)
    /\ scope' = "after"
    /\ propagated' = IF ExitSuppresses THEN "None" ELSE bodyExc
    /\ UNCHANGED << file, dirMade, bodyExc, saveRes, expandVars, loadVars, mainVars, renderVars >>

-----------------------------------------------------------------------------
(* TogetherClient.complete and the remote service                           *)

NoStatus == 0      \* an absent or None status attribute (falsy)

StatusVals == { NoStatus, 400, 429, 503 }

\* what chat.completions.create can do: return a response or raise
Ok == [kind |-> "ok", status_code |-> NoStatus, status |-> NoStatus]
Exceptions ==
    { [kind |-> "exc", status_code |-> a, status |-> b] :
        a \in StatusVals, b \in { NoStatus, 503 } }

\* the service's response: generated text, and the log-probability payload
\* when the request carried a logprobs depth
SdkResponse(kwargs) ==
    [content |-> "text",
     logprobs |-> IF "logprobs" \in DOMAIN kwargs THEN "payload" ELSE "None",
     finish_reason |-> "stop", usage |-> "usage"]

\* TogetherClient.complete: the dict built from the response
complete(response) ==
    [text |-> response.content, model |-> "model",
     finish_reason |-> response.finish_reason, usage |-> response.usage]

\* dict.get(key): None when the key is absent
Get(d, key) == IF key \in DOMAIN d THEN d[key] ELSE "None"

-----------------------------------------------------------------------------
(* Runner                                                                   *)

MaxPrompts == 2    \* templates given to one run

MaxAttempts == 3
RETRYABLE_STATUS == { 429, 500, 502, 503, 504 }

\* _is_retryable: status_code, or else status, is in the retryable set
IsRetryable(exc) ==
    LET st == IF exc.status_code # NoStatus THEN exc.status_code ELSE exc.status
    IN  st \in RETRYABLE_STATUS

\* the retry decorator of _call after attempt n raised exc:
\* retry_if_exception(_is_retryable) and not stop_after_attempt(3)
ShouldRetryOneMore(exc, n) == IsRetryable(exc) /\ n <= MaxAttempts

ShouldRetry(exc, n) == IsRetryable(exc) /\ n < MaxAttempts

\* self.gen_kwargs as scripts/run.py builds it
GenKwargs == [temperature |-> "temperature", max_tokens |-> "max_tokens"]

\* extra = {"logprobs": logprobs} if logprobs is not None else {}
Extra(logprobs) == IF logprobs # "None" THEN [logprobs |-> logprobs] ELSE << >>

\* the keyword arguments _call passes to client.complete
CallKwargs(logprobs) == Merge(GenKwargs, Extra(logprobs))

\* the expanded list of Runner.run; defined when every expand() returns
ExpandOkFirstOnly(ps) == ps = << >> \/ expand(ps[1]).status = "ok"

ExpandOk(ps) == \A p \in 1..Len(ps) : expand(ps[p]).status = "ok"

Expanded(ps) ==
    Flatten([p \in 1..Len(ps) |->
        [v \in 1..Len(expand(ps[p]).variants) |->
            [prompt_id |-> ps[p].id, logprobs |-> ps[p].logprobs,
             variables |-> expand(ps[p]).variants[v].ctx,
             system_text |-> expand(ps[p]).variants[v].system,
             user_text |-> expand(ps[p]).variants[v].user]]])

\* combos = [(model, *exp) for model in self.models for exp in expanded]
WithModel(m, e) ==
    [model |-> m, prompt_id |-> e.prompt_id, logprobs |-> e.logprobs,
     variables |-> e.variables, system_text |-> e.system_text,
     user_text |-> e.user_text]

CombosFirstModelOnly(ms, ps) ==
    Flatten([m \in 1..(IF Len(ms) > 0 THEN 1 ELSE 0) |->
        [e \in 1..Len(Expanded(ps)) |-> WithModel(ms[m], Expanded(ps)[e])]])

Combos(ms, ps) ==
    Flatten([m \in 1..Len(ms) |->
        [e \in 1..Len(Expanded(ps)) |-> WithModel(ms[m], Expanded(ps)[e])]])

\* the record _process builds from the result of _call
Record(combo, result) ==
    [model |-> combo.model, prompt_id |-> combo.prompt_id,
     variables |-> combo.variables, prompt_text |-> combo.user_text,
     system_text |-> combo.system_text,
     response |-> IF combo.logprobs = "None" THEN result["text"] ELSE "None",
     logprobs |-> IF combo.logprobs # "None" THEN Get(result, "logprobs") ELSE "None",
     finish_reason |-> Get(result, "finish_reason"),
     usage |-> Get(result, "usage")]

\* the line logger.error writes
ErrorLine(combo) == [model |-> combo.model, prompt_id |-> combo.prompt_id]

NoCall == [pair |-> 0, n |-> 0, kwargs |-> << >>,
           out |-> [kind |-> "none", status_code |-> NoStatus, status |-> NoStatus]]

\* attempt number of the call about to be made for the combo at idx
AttemptNo == IF lastCall.pair = idx THEN lastCall.n + 1 ELSE 1

\* the call made now, with its outcome
ThisCall(out) ==
    [pair |-> idx, n |-> AttemptNo, kwargs |-> CallKwargs(combos[idx].logprobs),
     out |-> out]

\* _process after _call raised for good: log the error and return
ProcessFailureFallsThrough(combo) ==
    /\ errors' = Append(errors, ErrorLine(combo))
    /\ file' = SaveFile(fh, file, Record(combo, complete(SdkResponse(<< >>))))
    /\ UNCHANGED saveRes

ProcessFailure(combo) ==
    /\ errors' = Append(errors, ErrorLine(combo))
    /\ UNCHANGED << file, saveRes >>

\* _process after _call returned result: build the record and save it
ProcessSuccess(combo, result) ==
    /\ saveRes' = SaveOutcome(fh, file, Record(combo, result))
    /\ file' = SaveFile(fh, file, Record(combo, result))
    /\ UNCHANGED errors

\* Runner.run, lines 55-60: expand everything, build combos
RunStart ==
    /\ pc = "run"
    /\ IF ExpandOk(prompts)
       THEN /\ combos' = Combos(models, prompts)
            /\ idx' = 1
            /\ pc' = "loop"
            /\ UNCHANGED bodyExc
       ELSE /\ bodyExc' = "KeyError"
            /\ pc' = "with_exit"
            /\ UNCHANGED << combos, idx >>
    /\ UNCHANGED << prompts, models, answer, exitStatus, clientMade, lastCall,
                    errors, outcomes, fh, file, dirMade, scope, propagated, saveRes,
                    expandVars, loadVars, renderVars >>

\* an attempt of _call returns: _process saves the record
CallReturns ==
    /\ pc = "loop"
    /\ idx <= Len(combos)
    /\ lastCall' = ThisCall(Ok)
    /\ ProcessSuccess(combos[idx], complete(SdkResponse(ThisCall(Ok).kwargs)))
    /\ IF SaveRaises(fh)
       THEN /\ bodyExc' = "RuntimeError"
            /\ pc' = "with_exit"
            /\ UNCHANGED << idx, outcomes >>
       ELSE /\ outcomes' = Append(outcomes, [i |-> idx, returned |-> TRUE])
            /\ idx' = idx + 1
            /\ UNCHANGED << pc, bodyExc >>
    /\ UNCHANGED << prompts, models, answer, exitStatus, clientMade, combos,
                    fh, dirMade, scope, propagated, expandVars, loadVars, renderVars >>

\* an attempt of _call raises and the decorator retries (after its wait)
CallRaisesRetry ==
    /\ pc = "loop"
    /\ idx <= Len(combos)
    /\ \E exc \in Exceptions :
        /\ ShouldRetry(exc, AttemptNo)
        /\ lastCall' = ThisCall(exc)
    /\ UNCHANGED << pc, prompts, models, answer, exitStatus, clientMade, combos, idx,
                    errors, outcomes, collectorVars, expandVars, loadVars, renderVars >>

\* an attempt of _call raises and the decorator re-raises: _process logs
CallRaisesFinal ==
    /\ pc = "loop"
    /\ idx <= Len(combos)
    /\ \E exc \in Exceptions :
        /\ ~ShouldRetry(exc, AttemptNo)
        /\ lastCall' = ThisCall(exc)
    /\ ProcessFailure(combos[idx])
    /\ outcomes' = Append(outcomes, [i |-> idx, returned |-> FALSE])
    /\ idx' = idx + 1
    /\ UNCHANGED << pc, prompts, models, answer, exitStatus, clientMade, combos,
                    fh, dirMade, scope, bodyExc, propagated, expandVars, loadVars, renderVars >>

\* the for loop of Runner.run is exhausted: run returns
RunReturn ==
    /\ pc = "loop"
    /\ idx > Len(combos)
    /\ pc' = "with_exit"
    /\ UNCHANGED << prompts, models, answer, exitStatus, clientMade, combos, idx,
                    lastCall, errors, outcomes, collectorVars, expandVars, loadVars, renderVars >>

\* the process is terminated from outside between two combos
Kill ==
    /\ pc = "loop"
    /\ lastCall.pair # idx
    /\ pc' = "killed"
    /\ UNCHANGED << prompts, models, answer, exitStatus, clientMade, combos, idx,
                    lastCall, errors, outcomes, collectorVars, expandVars, loadVars, renderVars >>

\* the with statement of main ends: __exit__, then done or the exception
MainWithExit ==
    /\ pc = "with_exit"
    /\ fh' = ExitFh(fh)
    /\ scope' = "after"
    /\ propagated' = IF ExitSuppresses THEN "None" ELSE bodyExc
    /\ pc' = "exited"
    /\ exitStatus' = IF propagated' = "None" THEN 0 ELSE 1
    /\ UNCHANGED << prompts, models, answer, clientMade, combos, idx, lastCall,
                    errors, outcomes, file, dirMade, bodyExc, saveRes,
                    expandVars, loadVars, renderVars >>

-----------------------------------------------------------------------------
(* scripts/run.py main                                                      *)

\* str.strip() and str.lower() on a line, a sequence of characters
RECURSIVE LStrip(_)
LStrip(line) ==
    IF line # << >> /\ Head(line) = " " THEN LStrip(Tail(line)) ELSE line

RECURSIVE RStrip(_)
RStrip(line) ==
    IF line # << >> /\ line[Len(line)] = " "
    THEN RStrip(SubSeq(line, 1, Len(line) - 1)) ELSE line

Strip(line) == RStrip(LStrip(line))

LowerChar(c) == IF c = "Y" THEN "y" ELSE IF c = "N" THEN "n" ELSE c
Lower(line) == [i \in 1..Len(line) |-> LowerChar(line[i])]

\* what input("Proceed? [y/N] ") can do: return a line or raise
Lines ==
    { << "y" >>, << "Y" >>, << " ", "y", " " >>, << "n" >>, << "N" >>, << >>,
      << "y", "e", "s" >>, << " " >>, << "y", "y" >> }
Inputs ==
    { [kind |-> "line", line |-> l] : l \in Lines }
    \cup { [kind |-> k, line |-> << >>] : k \in { "EOFError", "KeyboardInterrupt" } }
NoInput == [kind |-> "none", line |-> << >>]

\* confirm != "y", lines 109-116
DeclinedUnlessStartsWithY(inp) ==
    \/ inp.kind # "line"
    \/ Strip(inp.line) = << >>
    \/ Lower(Strip(inp.line))[1] # "y"

Declined(inp) == inp.kind # "line" \/ Lower(Strip(inp.line)) # << "y" >>

\* the templates a run is given
RunTemplates ==
    { [id |-> "p1", system |-> << >>, user |-> << "a" >>, logprobs |-> "None",
       variables |-> << [name |-> "a", list |-> TRUE, vals |-> << "v1", "v2" >>] >>],
      [id |-> "p2", system |-> << >>, user |-> << >>, logprobs |-> "None",
       variables |-> << >>],
      [id |-> "p3", system |-> << "b" >>, user |-> << >>, logprobs |-> "d5",
       variables |-> << [name |-> "b", list |-> FALSE, vals |-> << "v1" >>] >>],
      [id |-> "p4", system |-> << >>, user |-> << "c" >>, logprobs |-> "None",
       variables |-> << >>],
      [id |-> "p5", system |-> << >>, user |-> << "a" >>, logprobs |-> "None",
       variables |-> << [name |-> "a", list |-> TRUE, vals |-> << >>] >>] }

\* identifiers are unique within a file
PromptLists ==
    { ps \in SeqsUpTo(RunTemplates, MaxPrompts) :
        \A i, j \in 1..Len(ps) : i # j => ps[i].id # ps[j].id }
ModelLists == { << >>, << "m1" >>, << "m1", "m2" >> }

\* load_prompts returns; sys.exit(1) when it returned no template
MainLoad ==
    /\ pc = "start"
    /\ \E ps \in PromptLists :
        /\ prompts' = ps
        /\ IF ps = << >>
           THEN pc' = "exited" /\ exitStatus' = 1
           ELSE pc' = "summary" /\ UNCHANGED exitStatus
    /\ UNCHANGED << models, answer, clientMade, combos, idx, lastCall, errors,
                    outcomes, collectorVars, expandVars, loadVars, renderVars >>

\* n_variants = sum(len(p.expand()) for p in prompts) and the summary lines
MainSummary ==
    /\ pc = "summary"
    /\ IF ExpandOk(prompts)
       THEN pc' = "confirm" /\ UNCHANGED exitStatus
       ELSE pc' = "exited" /\ exitStatus' = 1
    /\ UNCHANGED << prompts, models, answer, clientMade, combos, idx, lastCall,
                    errors, outcomes, collectorVars, expandVars, loadVars, renderVars >>

\* the confirmation prompt
MainConfirm ==
    /\ pc = "confirm"
    /\ \E inp \in Inputs :
        /\ answer' = inp
        /\ IF Declined(inp)
           THEN pc' = "exited" /\ exitStatus' = 0
           ELSE pc' = "client" /\ UNCHANGED exitStatus
    /\ UNCHANGED << prompts, models, clientMade, combos, idx, lastCall, errors,
                    outcomes, collectorVars, expandVars, loadVars, renderVars >>

\* client = TogetherClient()
MainClient ==
    /\ pc = "client"
    /\ clientMade' = TRUE
    /\ pc' = "collector"
    /\ UNCHANGED << prompts, models, answer, exitStatus, combos, idx, lastCall,
                    errors, outcomes, collectorVars, expandVars, loadVars, renderVars >>

\* ResponseCollector(output_path): __init__ makes the directory
MainCollectorNew ==
    /\ pc = "collector"
    /\ dirMade' = TRUE
    /\ fh' = "None"
    /\ scope' = "before"
    /\ pc' = "with_enter"
    /\ UNCHANGED << file, bodyExc, propagated, saveRes, prompts, models, answer,
                    exitStatus, clientMade, combos, idx, lastCall, errors, outcomes,
                    expandVars, loadVars, renderVars >>

\* with ... as collector: __enter__ opens the file; Runner(...) is built
MainCollectorEnter ==
    /\ pc = "with_enter"
    /\ fh' = "open"
    /\ scope' = "inside"
    /\ pc' = "run"
    /\ UNCHANGED << file, dirMade, bodyExc, propagated, saveRes, prompts, models,
                    answer, exitStatus, clientMade, combos, idx, lastCall, errors,
                    outcomes, expandVars, loadVars, renderVars >>

-----------------------------------------------------------------------------
(* visualizer render                                                        *)
(* A record is [prompt_id, logprobs]; logprobs is "None" (absent or null), *)
(* "empty" (a payload whose content is empty) or a payload with content.   *)
(* A path is [stem, idx, suffix]; idx is -1 when the stem carries no index.*)

MaxRecords == 3    \* records given to render

VRecords ==
    { [prompt_id |-> i, logprobs |-> l] :
        i \in { "p1", "p2" }, l \in { "None", "empty", "lpA", "lpB" } }

NoOutput == [stem |-> "None", idx |-> -1, suffix |-> ""]
Outputs ==
    { NoOutput,
      [stem |-> "out", idx |-> -1, suffix |-> ".png"],
      [stem |-> "out", idx |-> -1, suffix |-> ""] }

\* lp_records = [r for r in records if r.get("logprobs")]
LpRecords(records) == SelectSeq(records, LAMBDA r : r.logprobs # "None")

\* (record.get("logprobs") or {}).get("content") or [] is empty
EmptyContent(record) == record.logprobs = "empty"

\* list.index(x): the first position holding a value equal to x, 0-based
Index(list, x) == (CHOOSE i \in 1..Len(list) :
                      list[i] = x /\ \A j \in 1..(i - 1) : list[j] # x) - 1

\* output.with_name(f"{output.stem}_{idx}{output.suffix or '.png'}")
WithIndex(output, i) ==
    [stem |-> output.stem, idx |-> i,
     suffix |-> IF output.suffix = "" THEN ".png" ELSE output.suffix]

\* out_path of lines 153-158 for the record at position k of lp_records
OutPath(lp, k, output) ==
    IF Len(lp) > 1 THEN WithIndex(output, Index(lp, lp[k])) ELSE output

\* lines 65-68: filter the records; exit when none has logprobs
RenderStart ==
    /\ vpc = "start"
    /\ IF LpRecords(vrecords) = << >>
       THEN vpc' = "exit1" /\ UNCHANGED vk
       ELSE vpc' = "loop" /\ vk' = 1
    /\ UNCHANGED << vrecords, voutput, images, shown, expandVars, loadVars,
                    collectorVars, mainVars >>

\* lines 75-78: a record with empty content is skipped
RenderSkip ==
    /\ vpc = "loop"
    /\ vk <= Len(LpRecords(vrecords))
    /\ EmptyContent(LpRecords(vrecords)[vk])
    /\ vk' = vk + 1
    /\ UNCHANGED << vrecords, voutput, vpc, images, shown, expandVars, loadVars,
                    collectorVars, mainVars >>

\* lines 80-160: the figure is built and saved under out_path
RenderSave ==
    /\ vpc = "loop"
    /\ vk <= Len(LpRecords(vrecords))
    /\ ~EmptyContent(LpRecords(vrecords)[vk])
    /\ voutput # NoOutput
    /\ images' = Append(images,
                    [k |-> vk, path |-> OutPath(LpRecords(vrecords), vk, voutput)])
    /\ vk' = vk + 1
    /\ UNCHANGED << vrecords, voutput, vpc, shown, expandVars, loadVars,
                    collectorVars, mainVars >>

\* lines 80-162: the figure is built and shown
RenderShow ==
    /\ vpc = "loop"
    /\ vk <= Len(LpRecords(vrecords))
    /\ ~EmptyContent(LpRecords(vrecords)[vk])
    /\ voutput = NoOutput
    /\ shown' = shown + 1
    /\ vk' = vk + 1
    /\ UNCHANGED << vrecords, voutput, vpc, images, expandVars, loadVars,
                    collectorVars, mainVars >>

\* the for loop is exhausted: render returns
RenderReturn ==
    /\ vpc = "loop"
    /\ vk > Len(LpRecords(vrecords))
    /\ vpc' = "returned"
    /\ UNCHANGED << vrecords, voutput, vk, images, shown, expandVars, loadVars,
                    collectorVars, mainVars >>

IdleRender ==
    /\ vrecords = << >> /\ voutput = NoOutput /\ vpc = "idle" /\ vk = 0
    /\ images = << >> /\ shown = 0

-----------------------------------------------------------------------------
(* Specifications *)

IdleTemplate ==
    [id |-> "p1", system |-> << >>, user |-> << >>, variables |-> << >>,
     logprobs |-> "None"]
IdleExpand == et = IdleTemplate /\ eres = NotCalled
IdleLoad == text = << >> /\ pos = 0 /\ templates = << >> /\ lres = Running
IdleCollector ==
    /\ fh = "None" /\ file = << >> /\ dirMade = FALSE /\ scope = "unbuilt"
    /\ bodyExc = "None" /\ propagated = "None" /\ saveRes = NoSave
IdleMain ==
    /\ prompts = << >> /\ models = << >> /\ answer = NoInput /\ exitStatus = -1
    /\ clientMade = FALSE /\ combos = << >> /\ idx = 0 /\ lastCall = NoCall
    /\ errors = << >> /\ outcomes = << >>

\* expand() called on any template
InitExpand ==
    /\ et \in Templates /\ eres = NotCalled
    /\ IdleLoad /\ IdleCollector /\ IdleMain /\ pc = "expand_user" /\ IdleRender
NextExpand == ExpandCall
SpecExpand == InitExpand /\ [][NextExpand]_vars

\* load_prompts called on any file
InitLoad ==
    /\ text \in Texts /\ pos = 0 /\ templates = << >> /\ lres = Running
    /\ IdleExpand /\ IdleCollector /\ IdleMain /\ pc = "load_user" /\ IdleRender
NextLoad == LoadRecord \/ LoadReturn
SpecLoad == InitLoad /\ [][NextLoad]_vars

\* a constructed ResponseCollector used by any caller
InitCollector ==
    /\ fh = "None" /\ file = << >> /\ dirMade = TRUE /\ scope = "before"
    /\ bodyExc = "None" /\ propagated = "None" /\ saveRes = NoSave
    /\ IdleExpand /\ IdleLoad /\ IdleMain /\ pc = "collector_user" /\ IdleRender
NextCollector == WithEnter \/ CallSave \/ BodyRaise \/ WithExit
SpecCollector == InitCollector /\ [][NextCollector]_vars

\* Runner.run called inside the collector's with statement, as in main
\* lines 122-130, on any templates and models
RunnerSteps ==
    RunStart \/ CallReturns \/ CallRaisesRetry \/ CallRaisesFinal \/ RunReturn
    \/ Kill \/ MainWithExit

Init ==
    /\ pc = "run"
    /\ prompts \in PromptLists /\ models \in ModelLists
    /\ answer = NoInput /\ exitStatus = -1 /\ clientMade = TRUE
    /\ combos = << >> /\ idx = 0 /\ lastCall = NoCall
    /\ errors = << >> /\ outcomes = << >>
    /\ fh = "open" /\ file = << >> /\ dirMade = TRUE /\ scope = "inside"
    /\ bodyExc = "None" /\ propagated = "None" /\ saveRes = NoSave
    /\ IdleExpand /\ IdleLoad /\ IdleRender
Next == RunnerSteps
Spec == Init /\ [][Next]_vars

\* the whole of main
InitMain ==
    /\ pc = "start" /\ models \in ModelLists
    /\ prompts = << >> /\ answer = NoInput /\ exitStatus = -1
    /\ clientMade = FALSE /\ combos = << >> /\ idx = 0 /\ lastCall = NoCall
    /\ errors = << >> /\ outcomes = << >>
    /\ IdleExpand /\ IdleLoad /\ IdleCollector /\ IdleRender
NextMain ==
    \/ MainLoad \/ MainSummary \/ MainConfirm \/ MainClient
    \/ MainCollectorNew \/ MainCollectorEnter \/ RunnerSteps
SpecMain == InitMain /\ [][NextMain]_vars

\* render called on any records, with or without an output path
InitRender ==
    /\ vrecords \in SeqsUpTo(VRecords, MaxRecords) /\ voutput \in Outputs
    /\ vpc = "start" /\ vk = 0 /\ images = << >> /\ shown = 0
    /\ IdleExpand /\ IdleLoad /\ IdleCollector /\ IdleMain /\ pc = "render_user"
NextRender == RenderStart \/ RenderSkip \/ RenderSave \/ RenderShow \/ RenderReturn
SpecRender == InitRender /\ [][NextRender]_vars

-----------------------------------------------------------------------------
(* Properties of expand(), checked under SpecExpand *)

RECURSIVE ProdLens(_)
ProdLens(entries) ==
    IF entries = << >> THEN 1
    ELSE (IF Head(entries).list THEN Len(Head(entries).vals) ELSE 1)
         * ProdLens(Tail(entries))

ListNames(variables) ==
    { variables[i].name : i \in { j \in 1..Len(variables) : variables[j].list } }

Restrict(f, S) == [n \in S \cap DOMAIN f |-> f[n]]

\* C7: when expand() returns, the number of variants is the product of the
\* lengths of the template's list-valued variables (1 when it has none, 0
\* when one of them is empty), and every variant's context holds every
\* scalar variable with its declared value.
C7_VariantCount ==
    eres.status = "ok" =>
        /\ Len(eres.variants) = ProdLens(et.variables)
        /\ (ListVars(et.variables) = << >> => Len(eres.variants) = 1)
        /\ \A v \in 1..Len(eres.variants) : \A i \in 1..Len(et.variables) :
            ~et.variables[i].list =>
                /\ et.variables[i].name \in DOMAIN eres.variants[v].ctx
                /\ eres.variants[v].ctx[et.variables[i].name] = et.variables[i].vals[1]

\* expand() returned for a template with a scalar and a two-element list
C7_Witness ==
    /\ eres.status = "ok"
    /\ Len(eres.variants) = 2
    /\ \E i, j \in 1..Len(et.variables) :
        /\ ~et.variables[i].list
        /\ et.variables[j].list /\ Len(et.variables[j].vals) = 2

NoDuplicateAssignments ==
    \A c, d \in 1..Len(eres.variants) :
        c # d => eres.variants[c].ctx # eres.variants[d].ctx

CoversProduct ==
    LET lv == ListVars(et.variables)
        names == ListNames(et.variables)
    IN  { Restrict(eres.variants[c].ctx, names) : c \in 1..Len(eres.variants) }
        = { f \in [names -> Vals] :
              \A i \in 1..Len(lv) : f[lv[i].name] \in Range(lv[i].vals) }

\* the number of variants over which list variable j keeps one value
RECURSIVE Stride(_, _)
Stride(lv, j) == IF j >= Len(lv) THEN 1 ELSE Len(lv[j + 1].vals) * Stride(lv, j + 1)

DeclaredOrder ==
    LET lv == ListVars(et.variables)
    IN  /\ Len(eres.variants) = ProdLens(lv)
        /\ \A c \in 1..Len(eres.variants) : \A j \in 1..Len(lv) :
            eres.variants[c].ctx[lv[j].name]
                = lv[j].vals[(((c - 1) \div Stride(lv, j)) % Len(lv[j].vals)) + 1]

ListValuesDistinct ==
    \A i \in 1..Len(et.variables) :
        \A x, y \in 1..Len(et.variables[i].vals) :
            x # y => et.variables[i].vals[x] # et.variables[i].vals[y]

\* C8 as stated: for every template the returned variants have pairwise
\* different assignments, cover the cartesian product of the list values
\* and come in declared order with the last variable varying fastest.
C8_Original ==
    eres.status = "ok" =>
        NoDuplicateAssignments /\ CoversProduct /\ DeclaredOrder

\* C8 as amended: the returned variants cover the cartesian product of the
\* list values in declared order, last variable fastest, one variant per
\* tuple of list positions; their assignments are pairwise different when
\* no list-valued variable repeats a value.
C8_ProductOrder ==
    eres.status = "ok" =>
        /\ CoversProduct
        /\ DeclaredOrder
        /\ (ListValuesDistinct => NoDuplicateAssignments)

\* expand() returned four variants for two two-element lists
C8_Witness ==
    /\ eres.status = "ok"
    /\ Len(eres.variants) = 4
    /\ Len(ListVars(et.variables)) = 2
    /\ ListValuesDistinct

-----------------------------------------------------------------------------
(* Properties of load_prompts, checked under SpecLoad *)

Offending(item) ==
    \/ item.kind = "garbage"
    \/ item.kind = "object" /\ ~({ "id", "system", "user" } \subseteq item.fields)

FirstOffending ==
    CHOOSE i \in 1..Len(text) :
        Offending(text[i]) /\ \A j \in 1..(i - 1) : ~Offending(text[j])

ObjectsOf(txt) == SelectSeq(txt, LAMBDA item : item.kind = "object")

\* C9: once load_prompts has ended: if some record is malformed JSON or
\* lacks id, system or user, it ended by raising an error that names the
\* file and the position of the offending record; otherwise it returned one
\* template per record, in file order, variables defaulting to empty.
C9_PositionalError ==
    lres.status # "running" =>
        IF \E i \in 1..Len(text) : Offending(text[i])
        THEN /\ lres.status = "raised"
             /\ lres.names_path
             /\ lres.position = { FirstOffending - 1 }
        ELSE /\ lres.status = "returned"
             /\ Len(templates) = Len(ObjectsOf(text))
             /\ \A k \in 1..Len(templates) :
                 /\ templates[k].id = ObjectsOf(text)[k].id
                 /\ ("variables" \notin ObjectsOf(text)[k].fields
                        => templates[k].variables = << >>)

-----------------------------------------------------------------------------
(* Properties of ResponseCollector, checked under SpecCollector *)

\* C6: the handle is open exactly inside the with statement; leaving it,
\* normally or by an exception, closes the handle and lets the exception
\* through; a save outside the with statement raises and writes nothing; a
\* save inside it appends exactly one record.
C6_ScopedHandle ==
    /\ (fh = "open") <=> (scope = "inside")
    /\ scope = "after" => propagated = bodyExc
    /\ saveRes # NoSave =>
        IF saveRes.at = "inside"
        THEN ~saveRes.raised /\ saveRes.grew = 1
        ELSE saveRes.raised /\ saveRes.grew = 0

\* a with body that saved and then raised has been left, and a later save
\* outside the with statement was refused
C6_Witness ==
    /\ scope = "after"
    /\ bodyExc = "Exception" /\ propagated = "Exception"
    /\ Len(file) >= 2
    /\ saveRes.at = "after" /\ saveRes.raised

-----------------------------------------------------------------------------
(* Properties of Runner.run, checked under Spec *)

RunReturned == pc \in { "with_exit", "exited" } /\ bodyExc = "None"
RunLooping == pc \in { "loop", "killed" } \/ RunReturned

RECURSIVE VariantTotal(_)
VariantTotal(ps) ==
    IF ps = << >> THEN 0 ELSE ProdLens(Head(ps).variables) + VariantTotal(Tail(ps))

\* the template the e-th expanded variant comes from, and its rank in it
RECURSIVE TemplateAt(_, _)
TemplateAt(ps, e) ==
    IF e <= ProdLens(Head(ps).variables)
    THEN [t |-> Head(ps), v |-> e]
    ELSE TemplateAt(Tail(ps), e - ProdLens(Head(ps).variables))

\* C1: once expansion has succeeded, combos is the cross product of the
\* models (outer) and the variants in template/expansion order (inner), the
\* loop processes combos one by one in that order, each exactly once,
\* whatever the calls did, and when run returns the number of pairs
\* processed is len(models) times the sum of the templates' variant counts.
C1_EveryPairOnce ==
    RunLooping =>
        LET E == VariantTotal(prompts)
        IN  /\ Len(combos) = Len(models) * E
            /\ \A k \in 1..Len(combos) :
                LET at == TemplateAt(prompts, ((k - 1) % E) + 1)
                IN  /\ combos[k].model = models[((k - 1) \div E) + 1]
                    /\ combos[k].prompt_id = at.t.id
                    /\ combos[k].variables = expand(at.t).variants[at.v].ctx
            /\ Len(outcomes) = idx - 1
            /\ \A i \in 1..Len(outcomes) : outcomes[i].i = i
            /\ idx <= Len(combos) + 1
            /\ (RunReturned => Len(outcomes) = Len(models) * E)

\* two models, a template with a two-element list and one with no list:
\* run returned after six pairs, a failed pair followed by a successful one
C1_Witness ==
    /\ pc = "exited" /\ bodyExc = "None"
    /\ Len(models) = 2 /\ Len(prompts) = 2
    /\ Len(outcomes) = 6
    /\ \E i, j \in 1..6 : i < j /\ ~outcomes[i].returned /\ outcomes[j].returned

Transient(out) ==
    \/ out.status_code \in { 429, 500, 502, 503, 504 }
    \/ out.status_code = 0 /\ out.status \in { 429, 500, 502, 503, 504 }

\* C2: the client is called at most three times for one pair; a further
\* attempt for the same pair is pending only after an attempt that failed
\* with a status in {429, 500, 502, 503, 504}; after a failure with any
\* other status, or none, the pair is over.
C2_RetryPolicy ==
    /\ lastCall.n <= 3
    /\ (lastCall.pair # 0 /\ lastCall.pair = idx) =>
        lastCall.out.kind = "exc" /\ Transient(lastCall.out) /\ lastCall.n < 3
    /\ (lastCall.out.kind = "exc" /\ ~Transient(lastCall.out)) =>
        /\ lastCall.pair = idx - 1
        /\ ~outcomes[lastCall.pair].returned

\* a pair given up after its third attempt failed with status 429
C2_Witness ==
    /\ lastCall.n = 3
    /\ lastCall.out.kind = "exc" /\ lastCall.out.status_code = 429
    /\ lastCall.pair = idx - 1
    /\ ~outcomes[lastCall.pair].returned

Count(seq, P(_)) == Cardinality({ i \in 1..Len(seq) : P(seq[i]) })

\* C3: every processed pair either returned from _call, and then one record
\* and no error line was written for it, or raised for good, and then one
\* error line and no record was written for it; a pair is recorded as
\* returned exactly when its last attempt succeeded.
C3_OneOutcomePerPair ==
    RunLooping =>
        /\ Len(file) = Count(outcomes, LAMBDA o : o.returned)
        /\ Len(errors) = Count(outcomes, LAMBDA o : ~o.returned)
        /\ Len(file) + Len(errors) = Len(outcomes)
        /\ LET failed == SelectSeq(outcomes, LAMBDA o : ~o.returned)
           IN  \A k \in 1..Len(errors) :
                 /\ errors[k].model = combos[failed[k].i].model
                 /\ errors[k].prompt_id = combos[failed[k].i].prompt_id
        /\ (lastCall.pair # 0 /\ lastCall.pair = idx - 1) =>
              (outcomes[lastCall.pair].returned <=> lastCall.out.kind = "ok")

\* a failed first attempt, then a success on the second: exactly one record
C3_Witness ==
    /\ lastCall.n = 2 /\ lastCall.out.kind = "ok" /\ lastCall.pair = 1
    /\ idx = 2
    /\ Len(file) = 1 /\ errors = << >>

SameRequest(record, combo) ==
    /\ record.model = combo.model
    /\ record.prompt_id = combo.prompt_id
    /\ record.variables = combo.variables
    /\ record.prompt_text = combo.user_text
    /\ record.system_text = combo.system_text

IsPrefix(s, t) == Len(s) <= Len(t) /\ \A i \in 1..Len(s) : s[i] = t[i]

FileIsSuccessfulPairs ==
    RunLooping =>
        LET done == SelectSeq(outcomes, LAMBDA o : o.returned)
        IN  /\ Len(file) = Len(done)
            /\ \A k \in 1..Len(file) : SameRequest(file[k], combos[done[k].i])

\* C4: in every state of a run, also one terminated from outside, the file
\* holds exactly the records of the pairs whose call returned, in processing
\* order, and no step changes or removes a record already in the file.
C4_AppendOnly == []FileIsSuccessfulPairs /\ [][IsPrefix(file, file')]_vars

\* a run terminated from outside after two records and one failed pair
C4_Witness ==
    /\ pc = "killed"
    /\ Len(file) = 2
    /\ \E i \in 1..Len(outcomes) : ~outcomes[i].returned

\* C5: the logprobs depth is forwarded to the call exactly when the
\* template requested it, and every record in the file has exactly one of
\* response / logprobs populated: the payload (and a null response) when
\* the template requested log-probabilities, the text (and null logprobs)
\* otherwise.
C5_ExactlyOneField ==
    RunLooping =>
        /\ lastCall.pair # 0 =>
            /\ ("logprobs" \in DOMAIN lastCall.kwargs)
                  <=> (combos[lastCall.pair].logprobs # "None")
            /\ "logprobs" \in DOMAIN lastCall.kwargs =>
                  lastCall.kwargs["logprobs"] = combos[lastCall.pair].logprobs
        /\ LET done == SelectSeq(outcomes, LAMBDA o : o.returned)
           IN  \A k \in 1..Len(file) :
                 /\ (file[k].response # "None") # (file[k].logprobs # "None")
                 /\ IF combos[done[k].i].logprobs # "None"
                    THEN file[k].logprobs = "payload" /\ file[k].response = "None"
                    ELSE file[k].response = "text" /\ file[k].logprobs = "None"

-----------------------------------------------------------------------------
(* Properties of main, checked under SpecMain *)

\* the typed line is a y, in either case, with only blanks around it
AnsweredYes ==
    /\ answer.kind = "line"
    /\ \E i \in 1..Len(answer.line) :
        /\ answer.line[i] \in { "y", "Y" }
        /\ \A j \in 1..Len(answer.line) : j # i => answer.line[j] = " "

NothingDone ==
    /\ ~clientMade /\ ~dirMade /\ fh = "None"
    /\ lastCall = NoCall /\ file = << >>

\* C10: no client, directory, file or completion call exists before the
\* confirmation prompt was answered y; any other answer, EOF or interrupt
\* exits with status 0 and nothing done; an empty prompt file exits with a
\* non-zero status before the prompt is shown.
C10_ConfirmFirst ==
    /\ ~AnsweredYes => NothingDone
    /\ (answer # NoInput /\ ~AnsweredYes) => (pc = "exited" /\ exitStatus = 0)
    /\ (pc # "start" /\ prompts = << >>) =>
          (pc = "exited" /\ exitStatus > 0 /\ answer = NoInput)

\* the prompt was answered Y and the run has since saved a record
C10_Witness ==
    /\ AnsweredYes /\ answer.line = << "Y" >>
    /\ clientMade /\ dirMade
    /\ lastCall # NoCall /\ Len(file) >= 1

-----------------------------------------------------------------------------
(* Rendering failures in Runner.run, checked under Spec *)

VariableNames(t) == { t.variables[i].name : i \in 1..Len(t.variables) }

\* some context is rendered for t and one of its placeholders has no entry
RenderFails(t) ==
    /\ ProdLens(t.variables) > 0
    /\ \/ (\E i \in 1..Len(t.system) : t.system[i] \notin VariableNames(t))
       \/ (\E j \in 1..Len(t.user) : t.user[j] \notin VariableNames(t))

\* C12: when the rendering of any template of the run fails, run raises
\* (KeyError) with no completion call issued, no pair processed and no
\* record saved or error logged, whatever the other templates and the
\* models are, and the exception leaves the with statement.
C12_ExpandBeforeCalls ==
    (pc # "run" /\ \E p \in 1..Len(prompts) : RenderFails(prompts[p])) =>
        /\ bodyExc = "KeyError"
        /\ lastCall = NoCall
        /\ outcomes = << >> /\ file = << >> /\ errors = << >>
        /\ pc \in { "with_exit", "exited" }
        /\ (pc = "exited" => propagated = "KeyError" /\ exitStatus # 0)

\* run raised although its first template renders and two models are given
C12_Witness ==
    /\ pc = "exited" /\ bodyExc = "KeyError"
    /\ Len(models) = 2 /\ Len(prompts) = 2
    /\ ~RenderFails(prompts[1]) /\ ProdLens(prompts[1].variables) = 2
    /\ RenderFails(prompts[2])
    /\ lastCall = NoCall /\ file = << >>

-----------------------------------------------------------------------------
(* Properties of render, checked under SpecRender *)

\* C11: with an output path and more than one record with log-probability
\* data, the images saved for two different positions of the list of
\* qualifying records have different paths, whatever the records hold.
C11_DistinctFilenames ==
    (voutput # NoOutput /\ Len(LpRecords(vrecords)) > 1) =>
        \A x, y \in 1..Len(images) :
            images[x].k # images[y].k => images[x].path # images[y].path

====
